---- MODULE Spec2Model ----
(***************************************************************************)
(* LSB steganography codec of main.py: calc_max_message_length,            *)
(* encode_lsb, decode_lsb and the prefix check of the /decode handler.     *)
(* A character is its code point (ord), a string a sequence of code        *)
(* points, a bit string a sequence over {0,1}.  A pixel is the sequence of *)
(* its channel values (R,G,B and possibly A), a grid a function from the   *)
(* coordinates <<x, y>> to pixels.                                         *)
(***************************************************************************)
EXTENDS Integers, Sequences, FiniteSets, TLC

VARIABLES grids, original, width, height, message, idx, x, y, visited,
          ret, result, response, decoded_from, max_len, pc

vars == <<grids, original, width, height, message, idx, x, y, visited,
          ret, result, response, decoded_from, max_len, pc>>

\* ---------------------------------------------------------------- bounds
MaxWidth == 5
MaxHeight == 4
MaxMsgLen == 2
MaxCapSide == 10

\* ------------------------------------------------------------- constants
\* PREFIX = "vasu"
PREFIX == <<118, 97, 115, 117>>

\* chr(0), the terminator appended by encode_lsb and tested by decode_lsb
NUL == 0

\* ------------------------------------------------------ pure helpers
\* bin(n) without the 0b: the binary digits of n, most significant first
RECURSIVE Bin(_)
Bin(n) == IF n < 2 THEN <<n>> ELSE Bin(n \div 2) \o <<n % 2>>

\* format(ord(char), '08b'): zero-padded to a MINIMUM width of 8
Format08b(n) ==
    LET b == Bin(n)
    IN  IF Len(b) >= 8 THEN b ELSE [i \in 1..(8 - Len(b)) |-> 0] \o b

\* PREFIX + message + chr(0)
Frame(msg) == PREFIX \o msg \o <<NUL>>

\* ''.join([format(ord(char), '08b') for char in message])
RECURSIVE JoinBits(_)
JoinBits(s) == IF s = <<>> THEN <<>> ELSE Format08b(Head(s)) \o JoinBits(Tail(s))

BinaryMessage(msg) == JoinBits(Frame(msg))

\* calc_max_message_length with the sentinel byte forgotten
calc_max_message_length_nosentinel(w, h) ==
    LET total_bits == w * h * 3
    IN  (total_bits \div 8) - Len(PREFIX)

calc_max_message_length(w, h) ==
    LET total_bits == w * h * 3
    IN  (total_bits \div 8) - Len(PREFIX) - 1

\* the channel becomes the bit, its upper bits lost
SetLSB_clobber(v, bit) == bit

\* pixel[n] & ~1 | int(binary_message[idx])
SetLSB(v, bit) == (v - (v % 2)) + bit

\* for n in range(3): if idx < msg_len: pixel[n] = ...; idx += 1
RECURSIVE WriteChannels(_, _, _, _)
WriteChannels(pixel, n, i, bm) ==
    IF n >= 3 THEN [pixel |-> pixel, idx |-> i]
    ELSE IF i < Len(bm)
         THEN WriteChannels([pixel EXCEPT ![n + 1] = SetLSB(pixel[n + 1], bm[i + 1])],
                            n + 1, i + 1, bm)
         ELSE WriteChannels(pixel, n + 1, i, bm)

\* the copy is the very object it was taken from
copy_alias(ref) == ref

\* image.copy(): a new object, named "encoded" in encode_lsb
copy(ref) == "encoded"

\* the final length test left out
MessageTooLong_never(i, msg_len) == FALSE

\* if idx < msg_len: raise ValueError("Message too long for this image.")
MessageTooLong(i, msg_len) == i < msg_len

\* the channels read in B,G,R order
PixelLSBs_bgr(pixel) == <<pixel[3] % 2, pixel[2] % 2, pixel[1] % 2>>

\* for n in range(3): bits.append(pixel[n] & 1)
PixelLSBs(pixel) == <<pixel[1] % 2, pixel[2] % 2, pixel[3] % 2>>

\* the two for loops of decode_lsb, from pixel (px, py) on
RECURSIVE CollectBits(_, _, _, _, _)
CollectBits(img, w, h, px, py) ==
    IF py >= h THEN <<>>
    ELSE IF px >= w THEN CollectBits(img, w, h, 0, py + 1)
    ELSE PixelLSBs(img[<<px, py>>]) \o CollectBits(img, w, h, px + 1, py)

\* the group read least significant bit first
RECURSIVE BitsToInt_lsbfirst(_)
BitsToInt_lsbfirst(byte) ==
    IF byte = <<>> THEN 0 ELSE Head(byte) + 2 * BitsToInt_lsbfirst(Tail(byte))

\* int(''.join(map(str, byte)), 2)
RECURSIVE BitsToInt(_)
BitsToInt(byte) ==
    IF byte = <<>> THEN 0
    ELSE 2 * BitsToInt(SubSeq(byte, 1, Len(byte) - 1)) + byte[Len(byte)]

\* the terminator test left out
IsTerminator_never(c) == FALSE

\* if char == chr(0): break
IsTerminator(c) == c = NUL

\* bits[b:b+8]
Slice8(bits, b) ==
    SubSeq(bits, b + 1, IF b + 8 <= Len(bits) THEN b + 8 ELSE Len(bits))

\* for b in range(0, len(bits), 8): ... chars.append(char)
RECURSIVE CollectChars(_, _)
CollectChars(bits, b) ==
    IF b >= Len(bits) THEN <<>>
    ELSE LET byte == Slice8(bits, b)
         IN  IF Len(byte) < 8 THEN <<>>
             ELSE LET char == BitsToInt(byte)
                  IN  IF IsTerminator(char) THEN <<>>
                      ELSE <<char>> \o CollectChars(bits, b + 8)

decode_lsb(img, w, h) == CollectChars(CollectBits(img, w, h, 0, 0), 0)

\* message.startswith(PREFIX)
StartsWith(s, p) == Len(s) >= Len(p) /\ SubSeq(s, 1, Len(p)) = p

\* the /decode handler's answer for a decoded string
DecodeResponse(s) ==
    IF ~StartsWith(s, PREFIX)
    THEN [status |-> 404, message |-> <<>>]
    ELSE [status |-> 200, message |-> SubSeq(s, Len(PREFIX) + 1, Len(s))]

\* ------------------------------------------------------------- inputs
\* code points of the message characters: NUL, 'h', 'i', U+0100
Chars == {0, 104, 105, 256}

Messages == UNION {[1..n -> Chars] : n \in 0..MaxMsgLen}

Patterns == {"zero", "ones", "mixed", "marker"}

Channels == {3, 4}

PrefixBits == JoinBits(PREFIX)

\* value of channel n (0-based) of pixel (px, py) in a w-wide input grid
ChannelValue(pat, w, px, py, n) ==
    IF n = 3 THEN (200 + px + py) % 256
    ELSE CASE pat = "zero" -> 0
           [] pat = "ones" -> 255
           [] pat = "mixed" -> (37 * px + 91 * py + 53 * n + 7) % 256
           [] pat = "marker" ->
                LET k == 3 * (py * w + px) + n
                IN  118 + (IF k < Len(PrefixBits) THEN PrefixBits[k + 1] ELSE 1)

Coords(w, h) == (0..(w - 1)) \X (0..(h - 1))

MakeGrid(pat, nchan, w, h) ==
    [p \in Coords(w, h) |-> [c \in 1..nchan |-> ChannelValue(pat, w, p[1], p[2], c - 1)]]

EmptyGrid == [p \in {} |-> <<>>]

NoResponse == [status |-> 0, message |-> <<>>]

\* ------------------------------------------------------------- state
InitCommon ==
    /\ idx = 0
    /\ x = 0
    /\ y = 0
    /\ visited = {}
    /\ ret = "none"
    /\ result = <<>>
    /\ response = NoResponse
    /\ decoded_from = "none"
    /\ max_len = 0

Init ==
    /\ width \in 0..MaxWidth
    /\ height \in 0..MaxHeight
    /\ message \in Messages
    /\ \E pat \in Patterns, nchan \in Channels :
          /\ original = MakeGrid(pat, nchan, width, height)
          /\ grids = [image |-> original, encoded |-> EmptyGrid]
    /\ InitCommon
    /\ pc = "start"

\* ------------------------------------------------------------- encode_lsb
\* encoded = image.copy(); width, height = image.size; idx = 0
EncodeBegin ==
    /\ pc = "start"
    /\ grids' = [grids EXCEPT ![copy("image")] = grids["image"]]
    /\ idx' = 0
    /\ x' = 0
    /\ y' = 0
    /\ pc' = IF height > 0 /\ width > 0 THEN "loop" ELSE "check"
    /\ UNCHANGED <<original, width, height, message, visited, ret, result,
                   response, decoded_from, max_len>>

\* one iteration of the inner loop: the pixel at (x, y)
EncodePixel ==
    /\ pc = "loop"
    /\ LET bm == BinaryMessage(message)
           msg_len == Len(bm)
           r == WriteChannels(grids["image"][<<x, y>>], 0, idx, bm)
       IN  /\ grids' = [grids EXCEPT ![copy("image")][<<x, y>>] = r.pixel]
           /\ idx' = r.idx
           /\ visited' = visited \cup {<<x, y>>}
           /\ IF r.idx >= msg_len
              THEN pc' = "check" /\ UNCHANGED <<x, y>>
              ELSE IF x + 1 < width
              THEN pc' = "loop" /\ x' = x + 1 /\ y' = y
              ELSE IF y + 1 < height
              THEN pc' = "loop" /\ x' = 0 /\ y' = y + 1
              ELSE pc' = "check" /\ UNCHANGED <<x, y>>
    /\ UNCHANGED <<original, width, height, message, ret, result, response,
                   decoded_from, max_len>>

\* if idx < msg_len: raise ValueError(...)
EncodeRaise ==
    /\ pc = "check"
    /\ MessageTooLong(idx, Len(BinaryMessage(message)))
    /\ pc' = "raised"
    /\ UNCHANGED <<grids, original, width, height, message, idx, x, y, visited,
                   ret, result, response, decoded_from, max_len>>

\* return encoded
EncodeReturn ==
    /\ pc = "check"
    /\ ~MessageTooLong(idx, Len(BinaryMessage(message)))
    /\ ret' = copy("image")
    /\ pc' = "returned"
    /\ UNCHANGED <<grids, original, width, height, message, idx, x, y, visited,
                   result, response, decoded_from, max_len>>

\* ------------------------------------------------------------- decode
\* /decode on a grid: message = decode_lsb(image), then the prefix check
DecodeOf(ref, from) ==
    /\ result' = decode_lsb(grids[ref], width, height)
    /\ response' = DecodeResponse(result')
    /\ decoded_from' = from
    /\ pc' = "decoded"
    /\ UNCHANGED <<grids, original, width, height, message, idx, x, y, visited,
                   ret, max_len>>

\* decoding the input grid, which encode_lsb never saw
DecodeInput ==
    /\ pc = "start"
    /\ DecodeOf("image", "input")

\* decoding the grid encode_lsb returned
DecodeOutput ==
    /\ pc = "returned"
    /\ DecodeOf(ret, "output")

Next ==
    \/ EncodeBegin
    \/ EncodePixel
    \/ EncodeRaise
    \/ EncodeReturn
    \/ DecodeInput
    \/ DecodeOutput

Spec == Init /\ [][Next]_vars

\* ------------------------------------------------------------- /max_chars
InitCap ==
    /\ width \in 0..MaxCapSide
    /\ height \in 0..MaxCapSide
    /\ message = <<>>
    /\ original = EmptyGrid
    /\ grids = [image |-> EmptyGrid, encoded |-> EmptyGrid]
    /\ InitCommon
    /\ pc = "cap_start"

\* max_len = calc_max_message_length(image)
MaxChars ==
    /\ pc = "cap_start"
    /\ max_len' = calc_max_message_length(width, height)
    /\ pc' = "cap_done"
    /\ UNCHANGED <<grids, original, width, height, message, idx, x, y, visited,
                   ret, result, response, decoded_from>>

NextCap == MaxChars

SpecCap == InitCap /\ [][NextCap]_vars

\* ------------------------------------------------------------- properties
\* the grid a finished decode read
DecodedGrid == IF decoded_from = "output" THEN grids[ret] ELSE grids["image"]

\* LSB of channel (k mod 3) of the pixel at x = (k div 3) mod w, y = (k div 3) div w
LSBAt(img, w, k) == img[<<(k \div 3) % w, (k \div 3) \div w>>][(k % 3) + 1] % 2

\* row-major index of the pixel at coordinates p
PixelIndex(p) == p[2] * width + p[1]

Cap == calc_max_message_length(width, height)

EncodeStarted == pc \in {"loop", "check", "returned", "raised"}

\* C1 (as claimed): whenever capacity(width,height) >= length(message), encode_lsb
\* does not raise and decoding its result gives PREFIX followed by exactly message,
\* which the caller strips to message.
C1_RoundTrip ==
    Cap >= Len(message) =>
        /\ pc # "raised"
        /\ (pc = "decoded" /\ decoded_from = "output") =>
              /\ result = PREFIX \o message
              /\ response = [status |-> 200, message |-> message]

\* C2 (as claimed): encode_lsb returns a grid only when length(message) <= capacity
\* and raises only when length(message) >= capacity + 1.
C2_SameBound ==
    /\ pc = "raised" => Len(message) >= Cap + 1
    /\ pc = "returned" => Len(message) <= Cap

\* C3: calc_max_message_length returns floor(width*height*3/8) - len(PREFIX) - 1,
\* i.e. the integer c with 8*(c+len(PREFIX)+1) <= 3*w*h < 8*(c+len(PREFIX)+2); it is
\* non-decreasing in width*height, and it is 32 for a 10x10 image.
C3_Capacity ==
    pc = "cap_done" =>
        /\ 8 * (max_len + Len(PREFIX) + 1) <= width * height * 3
        /\ width * height * 3 < 8 * (max_len + Len(PREFIX) + 2)
        /\ \A w2 \in 0..MaxCapSide, h2 \in 0..MaxCapSide :
              w2 * h2 >= width * height => calc_max_message_length(w2, h2) >= max_len
        /\ (width = 10 /\ height = 10) => max_len = 32

C3_Witness == pc = "cap_done" /\ width = 10 /\ height = 10 /\ max_len = 32

\* C4: encode_lsb returns a grid only with the cursor at the end of the bitstream and
\* every bit of the bitstream in the grid; otherwise it raises and returns no grid; it
\* raises exactly when the bitstream is longer than width*height*3 bits.
C4_NoSilentTruncation ==
    LET bm == BinaryMessage(message)
    IN  /\ pc = "returned" =>
              /\ ret # "none"
              /\ idx = Len(bm)
              /\ Len(bm) <= width * height * 3
              /\ \A k \in 0..(Len(bm) - 1) : LSBAt(grids[ret], width, k) = bm[k + 1]
        /\ pc = "raised" => (ret = "none" /\ Len(bm) > width * height * 3)
        /\ pc = "check" =>
              (ENABLED EncodeRaise <=> Len(bm) > width * height * 3)
        /\ ret # "none" => pc \in {"returned", "decoded"}

C4_Witness ==
    /\ pc = "raised"
    /\ idx > 0
    /\ idx < Len(BinaryMessage(message))
    /\ ret = "none"

\* C5: on success the output has the input's dimensions; a channel differs from the
\* input only in its LSB, only if it is an R, G or B channel whose bit position is
\* below the cursor, hence only in the first ceil(bitstream_length/3) pixels; every
\* pixel after those is identical to the input and was not visited.
C5_FrameEffect ==
    pc = "returned" =>
        LET out == grids[ret]
            inp == original
            npix == (Len(BinaryMessage(message)) + 2) \div 3
        IN  /\ DOMAIN out = DOMAIN inp
            /\ \A p \in DOMAIN inp :
                  /\ DOMAIN out[p] = DOMAIN inp[p]
                  /\ \A c \in DOMAIN inp[p] :
                        /\ out[p][c] \div 2 = inp[p][c] \div 2
                        /\ out[p][c] # inp[p][c] =>
                              /\ c <= 3
                              /\ 3 * PixelIndex(p) + (c - 1) < idx
                              /\ PixelIndex(p) < npix
                  /\ PixelIndex(p) >= npix => (out[p] = inp[p] /\ p \notin visited)

C5_Witness ==
    /\ pc = "returned"
    /\ idx % 3 # 0
    /\ \E p \in DOMAIN original :
          /\ Len(original[p]) = 4
          /\ grids[ret][p] # original[p]
    /\ \E p \in DOMAIN original : PixelIndex(p) * 3 >= idx + 3

\* the first 32 LSBs of the grid spell PREFIX
HasPrefixBits(img) ==
    /\ width * height * 3 >= Len(PrefixBits)
    /\ \A k \in 0..(Len(PrefixBits) - 1) : LSBAt(img, width, k) = PrefixBits[k + 1]

AllLSBZero(img) ==
    \A p \in DOMAIN img : \A c \in 1..3 : img[p][c] % 2 = 0

\* C6 (as claimed): decoding a grid that encode_lsb did not produce gives a string that
\* does not start with PREFIX, and /decode answers not-found.
C6_AbsentMarker ==
    (pc = "decoded" /\ decoded_from = "input") =>
        (~StartsWith(result, PREFIX) /\ response.status = 404)

\* C6 (amended): decoding an input grid whose first 32 LSBs are not the bits of PREFIX
\* gives a string that does not start with PREFIX, and /decode answers not-found; a
\* grid whose LSBs are all zero decodes to the empty string.
C6_AbsentMarkerAmended ==
    (pc = "decoded" /\ decoded_from = "input") =>
        /\ ~HasPrefixBits(grids["image"]) =>
              (~StartsWith(result, PREFIX) /\ response.status = 404)
        /\ AllLSBZero(grids["image"]) => result = <<>>

C6_Witness ==
    /\ pc = "decoded"
    /\ decoded_from = "input"
    /\ width * height * 3 >= 40
    /\ AllLSBZero(grids["image"])
    /\ response.status = 404

\* value of the g-th (0-based) complete 8-bit group of the grid's LSBs, MSB first
GroupValue(img, g) ==
      128 * LSBAt(img, width, 8 * g)     + 64 * LSBAt(img, width, 8 * g + 1)
    +  32 * LSBAt(img, width, 8 * g + 2) + 16 * LSBAt(img, width, 8 * g + 3)
    +   8 * LSBAt(img, width, 8 * g + 4) +  4 * LSBAt(img, width, 8 * g + 5)
    +   2 * LSBAt(img, width, 8 * g + 6) +      LSBAt(img, width, 8 * g + 7)

NGroups == (width * height * 3) \div 8

\* number of complete groups before the first all-zero group
GroupsBeforeZero(img) ==
    LET zeros == {g \in 0..(NGroups - 1) : GroupValue(img, g) = 0}
    IN  IF zeros = {} THEN NGroups
        ELSE CHOOSE g \in zeros : \A g2 \in zeros : g <= g2

\* C7: decode_lsb returns exactly the characters of the complete 8-bit groups (MSB
\* first) that precede the first all-zero group; without a zero group that is
\* floor(width*height*3/8) characters, a trailing partial group being discarded.
C7_DecodeResult ==
    pc = "decoded" =>
        /\ Len(result) = GroupsBeforeZero(DecodedGrid)
        /\ \A g \in 0..(Len(result) - 1) : result[g + 1] = GroupValue(DecodedGrid, g)

C7_Witness ==
    /\ pc = "decoded"
    /\ (width * height * 3) % 8 # 0
    /\ Len(result) = NGroups
    /\ NGroups >= 2
    /\ \E g \in 1..Len(result) : result[g] \notin {0, 255}

\* C8: the input grid always has its original value: encode_lsb writes only to its
\* copy, whether it returns or raises, and decode_lsb writes nothing.
C8_InputUnchanged == grids["image"] = original

C8_Witness ==
    /\ pc \in {"raised", "decoded"}
    /\ visited # {}
    /\ grids["encoded"] # original
    /\ grids["image"] = original

\* C9 (as claimed): the bitstream has exactly 8 bits per character of the frame.
C9_EightBitsPerChar ==
    EncodeStarted =>
        Len(BinaryMessage(message)) = 8 * (Len(PREFIX) + Len(message) + 1)

\* C10: while encoding, the pixels visited are the first ones in row-major order, the
\* cursor has advanced by one per written channel, and bit k of the bitstream is the
\* LSB of channel k mod 3 of the pixel at x = (k div 3) mod width, y = (k div 3) div
\* width; decode_lsb reads width*height*3 bits, bit k from that same position.
C10_BitLayout ==
    LET bm == BinaryMessage(message)
    IN  /\ EncodeStarted =>
              /\ visited = {p \in DOMAIN original : PixelIndex(p) < Cardinality(visited)}
              /\ idx = IF 3 * Cardinality(visited) < Len(bm)
                       THEN 3 * Cardinality(visited) ELSE Len(bm)
              /\ \A k \in 0..(idx - 1) : LSBAt(grids["encoded"], width, k) = bm[k + 1]
        /\ pc = "decoded" =>
              LET bits == CollectBits(DecodedGrid, width, height, 0, 0)
              IN  /\ Len(bits) = width * height * 3
                  /\ \A k \in 0..(Len(bits) - 1) :
                        bits[k + 1] = LSBAt(DecodedGrid, width, k)

C10_Witness ==
    /\ pc = "decoded"
    /\ decoded_from = "output"
    /\ width >= 2
    /\ idx > 3 * width
    /\ result = PREFIX \o message
    /\ Len(message) > 0

====
